---- MODULE Spec2Model ----
(***************************************************************************)
(* Account registration of fosscord-server.                                *)
(*                                                                         *)
(*   router.post("/")   src/api/src/routes/auth/register.ts                *)
(*   User.register      src/unnamed/part_000 (the User entity)             *)
(*                                                                         *)
(* Strings are sequences of tokens (characters, or a whole domain name),   *)
(* an absent (undefined) request field is the empty sequence.  A handler   *)
(* is cut into actions at the awaits that read or write the database; the  *)
(* synchronous code after such an await belongs to the same action.        *)
(***************************************************************************)
EXTENDS Integers, Sequences, FiniteSets, TLC

(* ------------------------------ bounds --------------------------------- *)

\* discriminators are drawn from 1..MaxDiscriminator (9999 in the code)
MaxDiscriminator == 2

\* at most this many configuration entries differ from the permissive one
MaxNonDefault == 2

\* guilds in guild.autoJoin.guilds
MaxGuilds == 2

\* dates are 0..MaxDate, "now" is MaxDate
MaxDate == 2

\* register.dateOfBirth.minimum when it is set (years)
MinAge == 1

\* the local part of an email tried on adjustEmail has at most this many tokens
MaxLocal == 3

\* custom flag positions tried: CustomOffsetBit..CustomOffsetBit + MaxCustom
MaxCustom == 1

(* ------------------------- program constants --------------------------- *)

\* for (let tries = 0; tries < 5; tries++)
MaxTries == 5

\* padStart(4, "0")
DiscriminatorLength == 4

\* BOT_HTTP_INTERACTIONS: BigInt(1) << BigInt(19), the highest named bit
MaxNamedBit == 19

\* CUSTOM_USER_FLAG_OFFSET = BigInt(1) << BigInt(32)
CustomOffsetBit == 32

\* the concurrent requests (HTTP registrations, User.register calls)
Requests == {1, 2}

Absent == <<>>

(* ------------------------------ strings -------------------------------- *)

\* control characters among the tokens of a username
ControlChars == {"BS", "LF"}

RECURSIVE Filter(_, _)
\* s without the tokens in drop
Filter(s, drop) ==
    IF s = <<>> THEN <<>>
    ELSE IF Head(s) \in drop THEN Filter(Tail(s), drop)
    ELSE <<Head(s)>> \o Filter(Tail(s), drop)

\* trimSpecial: strips the control characters, keeps the visible ones
trimSpecial(str) == Filter(str, ControlChars)

\* the position of the first token t in s, 0 when there is none
IndexOf(s, t) ==
    IF \E i \in 1..Len(s) : s[i] = t
    THEN CHOOSE i \in 1..Len(s) : s[i] = t /\ \A j \in 1..(i - 1) : s[j] # t
    ELSE 0

RECURSIVE Digits(_)
\* Number.toString(): the decimal digits of n >= 0
Digits(n) == IF n < 10 THEN <<n>> ELSE Digits(n \div 10) \o <<n % 10>>

RECURSIVE padStart(_, _, _)
\* String.padStart(len, fill)
padStart(s, len, fill) ==
    IF Len(s) >= len THEN s ELSE padStart(<<fill>> \o s, len, fill)

\* Math.randomIntBetween(1, 9999).toString().padStart(4, "0") for the draw n
FormatDiscriminator(n) == padStart(Digits(n), DiscriminatorLength, 0)

\* discriminator: string = "0000"
DefaultDiscriminator == <<0, 0, 0, 0>>

(* ------------------------------- email --------------------------------- *)

FreeMailDomains == {"gmail.com", "googlemail.com"}

Domains == FreeMailDomains \cup {"example.org"}

\* EMAIL_REGEX: atoms separated by single dots, "@", a domain.
\* parts[1] is the local part, parts[5] the domain.
EmailMatch(email) ==
    LET at == IndexOf(email, "@")
        user == SubSeq(email, 1, at - 1)
    IN  IF /\ at > 1
           /\ Len(email) = at + 1
           /\ email[at + 1] \in Domains
           /\ user[1] # "."
           /\ user[Len(user)] # "."
           /\ \A i \in 1..Len(user) : user[i] # "@"
           /\ \A i \in 1..(Len(user) - 1) : ~(user[i] = "." /\ user[i + 1] = ".")
        THEN [ok |-> TRUE, user |-> user, domain |-> email[at + 1]]
        ELSE [ok |-> FALSE, user |-> <<>>, domain |-> ""]

\* a replace that drops the "+" suffix and keeps the dots
StripPlusOnly(user) ==
    LET plus == IndexOf(user, "+")
    IN  IF plus = 0 THEN user ELSE SubSeq(user, 1, plus - 1)

\* user.replace(/[.]|(\+.*)/g, ""): no dots, nothing from the first "+" on
StripDotsAndPlus(user) ==
    LET plus == IndexOf(user, "+")
        kept == IF plus = 0 THEN user ELSE SubSeq(user, 1, plus - 1)
    IN  Filter(kept, {"."})

\* adjustEmail of a string; undefined is Absent
adjustEmail(email) ==
    LET parts == EmailMatch(email)
    IN  IF ~parts.ok THEN Absent
        ELSE IF parts.domain = "gmail.com" \/ parts.domain = "googlemail.com"
        THEN StripDotsAndPlus(parts.user) \o <<"@", "gmail.com">>
        ELSE email

\* adjustEmail(undefined): email.match of undefined throws a TypeError
adjustEmailThrows(email) == email = Absent

(* ----------------------------- responses ------------------------------- *)

NoResponse == [kind |-> "none", field |-> "", code |-> ""]

\* throw FieldErrors({ <field>: { code, message } })
FieldErrors(field, code) == [kind |-> "FieldErrors", field |-> field, code |-> code]

\* throw new HTTPError("Your IP is blocked from registration")
ProxyBlocked == [kind |-> "HTTPError", field |-> "", code |-> "IP_BLOCKED"]

\* an exception that no handler code catches (TypeError, a failed save)
Unhandled(what) == [kind |-> "Unhandled", field |-> "", code |-> what]

\* res.status(400).json({ captcha_key: ["captcha-required"], captcha_sitekey, captcha_service })
CaptchaChallenge == [kind |-> "Challenge", field |-> "captcha_key", code |-> "captcha-required"]

\* res.json({ token })
TokenResponse == [kind |-> "Token", field |-> "", code |-> ""]

\* return user
UserReturned == [kind |-> "User", field |-> "", code |-> ""]

(* --------------------------- configuration ----------------------------- *)

\* Config.get(): register.*, security.captcha.enabled, guild.autoJoin.enabled
\* (dateOfBirthMinimum 0: no minimum age)
PermissiveConfig ==
    [allowNewRegistration |-> TRUE,
     requireInvite |-> FALSE,
     blockProxies |-> FALSE,
     emailNecessary |-> FALSE,
     dateOfBirthNecessary |-> FALSE,
     dateOfBirthMinimum |-> 0,
     allowMultipleAccounts |-> TRUE,
     requireCaptcha |-> FALSE,
     captchaEnabled |-> TRUE,
     autoJoinEnabled |-> TRUE]

AllConfigs ==
    [allowNewRegistration : BOOLEAN,
     requireInvite : BOOLEAN,
     blockProxies : BOOLEAN,
     emailNecessary : BOOLEAN,
     dateOfBirthNecessary : BOOLEAN,
     dateOfBirthMinimum : {0, MinAge},
     allowMultipleAccounts : BOOLEAN,
     requireCaptcha : BOOLEAN,
     captchaEnabled : BOOLEAN,
     autoJoinEnabled : BOOLEAN]

NonDefault(c) == Cardinality({k \in DOMAIN c : c[k] # PermissiveConfig[k]})

\* the configurations a registration through router.post is run under
RouteConfigs ==
    {c \in AllConfigs :
        NonDefault(c) <= MaxNonDefault /\ c.autoJoinEnabled = PermissiveConfig.autoJoinEnabled}

\* the configurations User.register is run under: it reads guild.autoJoin only
RegisterConfigs ==
    {c \in AllConfigs : \A k \in DOMAIN c : k # "autoJoinEnabled" => c[k] = PermissiveConfig[k]}

\* guild.autoJoin.guilds
AutoJoinGuilds == [i \in 1..MaxGuilds |-> i]

(* ----------------------------- request body ---------------------------- *)

Usernames == {<<"a", "BS", "l">>, <<"b", "o">>}

\* no email, or a spelling of the gmail mailbox ab
EmailInputs == {Absent, <<"a", ".", "b", "+", "c", "@", "googlemail.com">>}

Now == MaxDate

Optional(S) == {Absent} \cup {<<x>> : x \in S}

\* req.body after check(...), with the origin's IP analysis; a field the
\* configuration c never lets the handler read is left absent
Bodies(c) ==
    [username : Usernames,
     email : EmailInputs,
     consent : BOOLEAN,
     invite : IF c.requireInvite THEN Optional({"inv"}) ELSE {Absent},
     fingerprint : IF c.allowMultipleAccounts THEN {Absent} ELSE Optional({"fp"}),
     date_of_birth : IF c.dateOfBirthNecessary \/ c.dateOfBirthMinimum # 0
                     THEN Optional(0..MaxDate) ELSE {Absent},
     captcha_key : IF c.requireCaptcha /\ c.captchaEnabled
                   THEN Optional({"key"}) ELSE {Absent},
     proxy : IF c.blockProxies THEN BOOLEAN ELSE {FALSE}]

NoBody ==
    [username |-> Absent, email |-> Absent, consent |-> FALSE, invite |-> Absent,
     fingerprint |-> Absent, date_of_birth |-> Absent, captcha_key |-> Absent,
     proxy |-> FALSE]

(* -------------------------------- state -------------------------------- *)

VARIABLES
    cfg,                \* the configuration, read only
    pc,                 \* where each request's handler stands
    body,               \* each request's body
    local,              \* the handler's locals: adjusted_email, adjusted_username,
                        \* discriminator, tries
    res,                \* what the caller got
    checks,             \* the checks the handler evaluated, in order
    prior,              \* the requests answered with success when this one arrived
    users,              \* rows of the users table
    settings,           \* rows of the user_settings table, by owner id
    userSave,           \* User.register: the state of user.save()
    settingsSave,       \* User.register: the state of settings.save()
    task,               \* the setImmediate auto-join callback of each account
    members,            \* guild memberships <<user id, guild>>
    errors,             \* console.error("[Autojoin]", e) entries <<user id, guild>>
    userFlags           \* a UserFlags bitfield, its decimal string, the bitfield
                        \* read back from the string

handlerVars == <<pc, body, local, res, checks, prior>>
dbVars == <<users, settings>>
registerVars == <<userSave, settingsSave>>
taskVars == <<task, members, errors>>
vars == <<cfg, handlerVars, dbVars, registerVars, taskVars, userFlags>>

\* flags: string = "0"
NoFlags == [bitfield |-> {}, flags |-> <<0>>, resolved |-> {}, step |-> "new"]

NoTask == [state |-> "none", next |-> 0]

\* let adjusted_email, adjusted_username; let discriminator = ""; tries = 0
NoLocals ==
    [adjusted_email |-> Absent, adjusted_username |-> Absent,
     discriminator |-> Absent, tries |-> 0]

\* a row of the users table: the columns the registration reads or writes
\* (deleted and fingerprints keep the entity's defaults)
UserRow(id, username, d, email) ==
    [id |-> id, username |-> username, discriminator |-> d, email |-> email,
     deleted |-> FALSE, fingerprints |-> <<>>]

\* the body of a registration through router.post, answered with a token
\* before the requests modelled arrive: it passes the checks of every
\* configuration
SeedBody ==
    [username |-> <<"a", "l">>, email |-> <<"s", "@", "example.org">>, consent |-> TRUE,
     invite |-> <<"inv">>, fingerprint |-> <<"fp">>, date_of_birth |-> <<0>>,
     captcha_key |-> <<"key">>, proxy |-> FALSE]

\* the account that registration has left
SeedUser ==
    UserRow(0, trimSpecial(SeedBody.username), FormatDiscriminator(1),
            adjustEmail(SeedBody.email))

AccountIds == Requests \cup {SeedUser.id}

InitWith(configs, tables) ==
    /\ cfg \in configs
    /\ pc = [r \in Requests |-> "idle"]
    /\ body = [r \in Requests |-> NoBody]
    /\ local = [r \in Requests |-> NoLocals]
    /\ res = [r \in Requests |-> NoResponse]
    /\ checks = [r \in Requests |-> <<>>]
    /\ prior = [r \in Requests |-> {}]
    /\ users \in tables
    /\ settings = {u.id : u \in users}
    /\ userSave = [r \in Requests |-> "none"]
    /\ settingsSave = [r \in Requests |-> "none"]
    /\ task = [r \in Requests |-> NoTask]
    /\ members = {}
    /\ errors = {}
    /\ userFlags = NoFlags

\* the requests already answered with a token or a user
Succeeded == {q \in Requests : res[q].kind \in {"Token", "User"}}

(* --------------------- router.post: the checks ------------------------- *)

Stage(r, p, c) == [res |-> r, pc |-> p, checks |-> c]

InSeq(x, s) == \E i \in 1..Len(s) : s[i] = x

\* a captcha check that answers a missing captcha_key with field errors
CaptchaStageFieldErrors(b) ==
    IF cfg.requireCaptcha /\ cfg.captchaEnabled /\ b.captcha_key = Absent
    THEN Stage(FieldErrors("captcha_key", "BASE_TYPE_REQUIRED"), "done", <<"captcha">>)
    ELSE Stage(NoResponse, "allocate", <<"captcha">>)

\* register.ts 144-158: the captcha check, then bcrypt.hash
CaptchaStage(b) ==
    IF cfg.requireCaptcha /\ cfg.captchaEnabled /\ b.captcha_key = Absent
    THEN Stage(CaptchaChallenge, "done", <<"captcha">>)
    ELSE Stage(NoResponse, "allocate", <<"captcha">>)

\* register.ts 130-132: the fingerprint lookup is awaited unless multiple
\* accounts are allowed
FingerprintStage(b) ==
    IF ~cfg.allowMultipleAccounts
    THEN Stage(NoResponse, "fingerprintLookup", <<>>)
    ELSE CaptchaStage(b)

\* an age check that also rejects a birth date on the minimum itself
UnderageInclusive(date_of_birth) ==
    date_of_birth # Absent /\ date_of_birth[1] >= Now - cfg.dateOfBirthMinimum

\* date_of_birth > minimum, minimum = now - register.dateOfBirth.minimum years
\* (undefined > minimum is false)
Underage(date_of_birth) ==
    date_of_birth # Absent /\ date_of_birth[1] > Now - cfg.dateOfBirthMinimum

\* register.ts 111-128 and what follows up to the next await
AgeStage(b) ==
    IF cfg.dateOfBirthNecessary /\ b.date_of_birth = Absent
    THEN Stage(FieldErrors("date_of_birth", "BASE_TYPE_REQUIRED"), "done", <<"age">>)
    ELSE IF cfg.dateOfBirthMinimum # 0 /\ Underage(b.date_of_birth)
    THEN Stage(FieldErrors("date_of_birth", "DATE_OF_BIRTH_UNDERAGE"), "done", <<"age">>)
    ELSE LET s == FingerprintStage(b)
         IN  Stage(s.res, s.pc, <<"age">> \o s.checks)

\* register.ts 90-109 up to the await of the email lookup
EmailStage(b) ==
    IF b.email # Absent
    THEN IF adjustEmail(b.email) = Absent
         THEN Stage(FieldErrors("email", "INVALID_EMAIL"), "done", <<"email">>)
         ELSE Stage(NoResponse, "emailLookup", <<"email">>)
    ELSE IF cfg.emailNecessary
    THEN Stage(FieldErrors("email", "BASE_TYPE_REQUIRED"), "done", <<"email">>)
    ELSE LET s == AgeStage(b)
         IN  Stage(s.res, s.pc, <<"email">> \o s.checks)

\* register.ts 58-88: adjustEmail(email), then the three policy checks
PolicyStage(b) ==
    IF adjustEmailThrows(b.email)
    THEN Stage(Unhandled("TypeError"), "done", <<>>)
    ELSE IF ~cfg.allowNewRegistration
    THEN Stage(FieldErrors("email", "REGISTRATION_DISABLED"), "done", <<"enabled">>)
    ELSE IF ~b.consent
    THEN Stage(FieldErrors("consent", "CONSENT_REQUIRED"), "done", <<"enabled", "consent">>)
    ELSE IF cfg.requireInvite /\ b.invite = Absent
    THEN Stage(FieldErrors("email", "INVITE_ONLY"), "done",
               <<"enabled", "consent", "invite">>)
    ELSE LET s == EmailStage(b)
         IN  Stage(s.res, s.pc, <<"enabled", "consent", "invite">> \o s.checks)

\* register.ts 45-50: the proxy check comes first
ProxyStage(b) ==
    IF cfg.blockProxies
    THEN IF b.proxy
         THEN Stage(ProxyBlocked, "done", <<"proxy">>)
         ELSE LET s == PolicyStage(b)
              IN  Stage(s.res, s.pc, <<"proxy">> \o s.checks)
    ELSE PolicyStage(b)

\* the checks that read a body field after the first await
LaterReads ==
    [date_of_birth |-> "age", fingerprint |-> "fingerprint", captcha_key |-> "captcha"]

\* the body as the state keeps it once the handler has evaluated the checks
\* done and stands at p: a finished handler never reads what it has not read
\* yet, and date_of_birth is read by the age check alone
Kept(b, p, done) ==
    [f \in DOMAIN b |->
        IF /\ f \in DOMAIN LaterReads
           /\ \/ p = "done" /\ ~InSeq(LaterReads[f], done)
              \/ p # "done" /\ f = "date_of_birth" /\ InSeq("age", done)
        THEN Absent
        ELSE b[f]]

\* the handler of r moves on to stage s with the locals l; its locals end
\* with it
Continue(r, s, l) ==
    /\ pc' = [pc EXCEPT ![r] = s.pc]
    /\ res' = [res EXCEPT ![r] = s.res]
    /\ checks' = [checks EXCEPT ![r] = checks[r] \o s.checks]
    /\ local' = [local EXCEPT ![r] = IF s.pc = "done" THEN NoLocals ELSE l]

\* register.ts 28-95: a request arrives and runs up to its first database read
Begin(r) ==
    /\ pc[r] = "idle"
    /\ \E b \in Bodies(cfg) :
        LET s == ProxyStage(b)
        IN  /\ body' = [body EXCEPT ![r] = Kept(b, s.pc, s.checks)]
            /\ Continue(r, s,
                        [NoLocals EXCEPT !.adjusted_email = adjustEmail(b.email),
                                         !.adjusted_username = trimSpecial(b.username)])
    /\ prior' = [prior EXCEPT ![r] = Succeeded]
    /\ UNCHANGED <<cfg, userFlags, dbVars, registerVars, taskVars>>

\* User.findOneOrFail({ email: adjusted_email }): any row with that email
EmailExists(email) == \E u \in users : u.email = email

\* an email lookup that has the account inserted before it answers
EmailLookupInserts(r) ==
    /\ pc[r] = "emailLookup"
    /\ LET s == IF \E u \in users : u.email = local[r].adjusted_email
                THEN Stage(FieldErrors("email", "EMAIL_ALREADY_REGISTERED"), "done", <<>>)
                ELSE AgeStage(body[r])
       IN  /\ body' = [body EXCEPT ![r] = Kept(body[r], s.pc, checks[r] \o s.checks)]
           /\ Continue(r, s, local[r])
    /\ users' = users \cup
                {UserRow(r, local[r].adjusted_username, <<0, 0, 0, 0>>,
                         local[r].adjusted_email)}
    /\ UNCHANGED <<cfg, userFlags, prior, settings, registerVars, taskVars>>

\* register.ts 95-132: the email lookup answers
EmailLookup(r) ==
    /\ pc[r] = "emailLookup"
    /\ LET s == IF EmailExists(local[r].adjusted_email)
                THEN Stage(FieldErrors("email", "EMAIL_ALREADY_REGISTERED"), "done", <<>>)
                ELSE AgeStage(body[r])
       IN  /\ body' = [body EXCEPT ![r] = Kept(body[r], s.pc, checks[r] \o s.checks)]
           /\ Continue(r, s, local[r])
    /\ UNCHANGED <<cfg, userFlags, prior, dbVars, registerVars, taskVars>>

\* User.findOne({ where: { fingerprints: In(fingerprint) } })
FingerprintExists(fingerprint) ==
    /\ fingerprint # Absent
    /\ \E u \in users : InSeq(fingerprint[1], u.fingerprints)

\* register.ts 132-158: the fingerprint lookup answers
FingerprintLookup(r) ==
    /\ pc[r] = "fingerprintLookup"
    /\ LET s == IF FingerprintExists(body[r].fingerprint)
                THEN Stage(FieldErrors("email", "EMAIL_ALREADY_REGISTERED"), "done",
                           <<"fingerprint">>)
                ELSE LET c == CaptchaStage(body[r])
                     IN  Stage(c.res, c.pc, <<"fingerprint">> \o c.checks)
       IN  /\ body' = [body EXCEPT ![r] = Kept(body[r], s.pc, checks[r] \o s.checks)]
           /\ Continue(r, s, local[r])
    /\ UNCHANGED <<cfg, userFlags, prior, dbVars, registerVars, taskVars>>

(* ----------------- router.post: discriminator and save ----------------- *)

\* a lookup by discriminator alone, whatever the username
IdentityExistsAnyName(username, d) == \E u \in users : u.discriminator = d

\* User.findOne({ where: { discriminator, username: adjusted_username } })
IdentityExists(username, d) ==
    \E u \in users : u.discriminator = d /\ u.username = username

\* a loop that runs one turn too many
LoopGuardOffByOne(t) == t <= MaxTries

\* register.ts 165: tries < 5
LoopGuard(t) == t < MaxTries

\* register.ts 165-178: one turn of the loop, a draw n and its lookup; tries
\* is the loop's own variable; the loop's exit with exists set throws
\* USERNAME_TOO_MANY_USERS
Allocate(r) ==
    /\ pc[r] = "allocate"
    /\ LoopGuard(local[r].tries)
    /\ \E n \in 1..MaxDiscriminator :
        LET d == FormatDiscriminator(n)
            exists == IdentityExists(local[r].adjusted_username, d)
        IN  Continue(r, IF ~exists THEN Stage(NoResponse, "save", <<>>)
                        ELSE IF LoopGuard(local[r].tries + 1)
                        THEN Stage(NoResponse, "allocate", <<>>)
                        ELSE Stage(FieldErrors("username", "USERNAME_TOO_MANY_USERS"),
                                   "done", <<>>),
                     [local[r] EXCEPT !.discriminator = d,
                                      !.tries = IF exists THEN @ + 1 ELSE 0])
    /\ UNCHANGED <<cfg, userFlags, body, prior, dbVars, registerVars, taskVars>>

\* register.ts 184-254: new User({...}).save() writes the row and, by the
\* cascade of User.settings, its settings in one save; then the token
SaveOk(r) ==
    /\ pc[r] = "save"
    /\ users' = users \cup
                {UserRow(r, local[r].adjusted_username, local[r].discriminator,
                         local[r].adjusted_email)}
    /\ settings' = settings \cup {r}
    /\ Continue(r, Stage(TokenResponse, "done", <<>>), local[r])
    /\ UNCHANGED <<cfg, userFlags, body, prior, registerVars, taskVars>>

\* the save is rejected by the database: the handler does not catch it
SaveFails(r) ==
    /\ pc[r] = "save"
    /\ Continue(r, Stage(Unhandled("save"), "done", <<>>), local[r])
    /\ UNCHANGED <<cfg, userFlags, body, prior, dbVars, registerVars, taskVars>>

(* ---------------------------- User.register ----------------------------- *)

\* part_000 252-293: User.register({ username }) builds the user (discriminator
\* "0000", email: username) and its settings and starts both saves
Register(r) ==
    /\ pc[r] = "idle"
    /\ \E name \in Usernames :
        /\ body' = [body EXCEPT ![r] = [NoBody EXCEPT !.username = name]]
        /\ local' = [local EXCEPT ![r] =
                        [NoLocals EXCEPT !.adjusted_username = trimSpecial(name),
                                         !.adjusted_email = trimSpecial(name),
                                         !.discriminator = DefaultDiscriminator]]
    /\ pc' = [pc EXCEPT ![r] = "saving"]
    /\ userSave' = [userSave EXCEPT ![r] = "pending"]
    /\ settingsSave' = [settingsSave EXCEPT ![r] = "pending"]
    /\ prior' = [prior EXCEPT ![r] = Succeeded]
    /\ UNCHANGED <<cfg, userFlags, res, checks, dbVars, taskVars>>

\* user.save(): the row and, by the cascade of User.settings, the settings row
UserSaveOk(r) ==
    /\ userSave[r] = "pending"
    /\ userSave' = [userSave EXCEPT ![r] = "ok"]
    /\ users' = users \cup
                {UserRow(r, local[r].adjusted_username, local[r].discriminator,
                         local[r].adjusted_email)}
    /\ settings' = settings \cup {r}
    /\ UNCHANGED <<cfg, userFlags, handlerVars, settingsSave, taskVars>>

UserSaveFails(r) ==
    /\ userSave[r] = "pending"
    /\ userSave' = [userSave EXCEPT ![r] = "failed"]
    /\ UNCHANGED <<cfg, userFlags, handlerVars, dbVars, settingsSave, taskVars>>

\* settings.save(): the settings row, in a save of its own
SettingsSaveOk(r) ==
    /\ settingsSave[r] = "pending"
    /\ settingsSave' = [settingsSave EXCEPT ![r] = "ok"]
    /\ settings' = settings \cup {r}
    /\ UNCHANGED <<cfg, userFlags, handlerVars, users, userSave, taskVars>>

SettingsSaveFails(r) ==
    /\ settingsSave[r] = "pending"
    /\ settingsSave' = [settingsSave EXCEPT ![r] = "failed"]
    /\ UNCHANGED <<cfg, userFlags, handlerVars, dbVars, userSave, taskVars>>

\* part_000 293-305: Promise.all resolved; setImmediate(...) and return user
RegisterReturns(r) ==
    /\ pc[r] = "saving"
    /\ userSave[r] = "ok" /\ settingsSave[r] = "ok"
    /\ task' = [task EXCEPT ![r] = [state |-> "scheduled", next |-> 0]]
    /\ pc' = [pc EXCEPT ![r] = "done"]
    /\ res' = [res EXCEPT ![r] = UserReturned]
    /\ UNCHANGED <<cfg, userFlags, body, local, checks, prior, dbVars, registerVars, members, errors>>

\* part_000 293: Promise.all rejects as soon as one save fails; the other
\* save is not cancelled
RegisterThrows(r) ==
    /\ pc[r] = "saving"
    /\ userSave[r] = "failed" \/ settingsSave[r] = "failed"
    /\ pc' = [pc EXCEPT ![r] = "done"]
    /\ res' = [res EXCEPT ![r] = Unhandled("save")]
    /\ UNCHANGED <<cfg, userFlags, body, local, checks, prior, dbVars, registerVars, taskVars>>

(* --------------------------- the auto-join task ------------------------- *)

\* the guilds the callback walks: none when auto-join is off
GuildsToJoin == IF cfg.autoJoinEnabled THEN AutoJoinGuilds ELSE <<>>

TaskAfter(i) ==
    [state |-> IF i >= Len(GuildsToJoin) THEN "done" ELSE "running", next |-> i]

\* part_000 295-303: the callback starts
AutoJoinStarts(r) ==
    /\ task[r].state = "scheduled"
    /\ task' = [task EXCEPT ![r] = TaskAfter(0)]
    /\ UNCHANGED <<cfg, userFlags, handlerVars, dbVars, registerVars, members, errors>>

\* part_000 298: Member.addToGuild(user.id, guild) succeeds
AutoJoinJoins(r) ==
    /\ task[r].state = "running"
    /\ members' = members \cup {<<r, GuildsToJoin[task[r].next + 1]>>}
    /\ task' = [task EXCEPT ![r] = TaskAfter(task[r].next + 1)]
    /\ UNCHANGED <<cfg, userFlags, handlerVars, dbVars, registerVars, errors>>

\* a task that a failed join ends: the guilds after it are not attempted
AutoJoinGivesUp(r) ==
    /\ task[r].state = "running"
    /\ errors' = errors \cup {<<r, GuildsToJoin[task[r].next + 1]>>}
    /\ task' = [task EXCEPT ![r] = [state |-> "done", next |-> task[r].next + 1]]
    /\ UNCHANGED <<cfg, userFlags, handlerVars, dbVars, registerVars, members>>

\* a task whose failed join reaches the caller instead of the log
AutoJoinPropagates(r) ==
    /\ task[r].state = "running"
    /\ res' = [res EXCEPT ![r] = Unhandled("autojoin")]
    /\ task' = [task EXCEPT ![r] = [state |-> "done", next |-> task[r].next + 1]]
    /\ UNCHANGED <<cfg, userFlags, pc, body, local, checks, prior, dbVars, registerVars, members, errors>>

\* part_000 298-300: Member.addToGuild rejects, .catch logs it
AutoJoinLogs(r) ==
    /\ task[r].state = "running"
    /\ errors' = errors \cup {<<r, GuildsToJoin[task[r].next + 1]>>}
    /\ task' = [task EXCEPT ![r] = TaskAfter(task[r].next + 1)]
    /\ UNCHANGED <<cfg, userFlags, handlerVars, dbVars, registerVars, members>>

(* ------------------------------ deletion -------------------------------- *)

\* an account is soft-deleted: deleted = true, the row stays
SoftDelete(id) ==
    /\ \E u \in users :
        /\ u.id = id
        /\ ~u.deleted
        /\ users' = (users \ {u}) \cup {[u EXCEPT !.deleted = TRUE]}
    /\ UNCHANGED <<cfg, userFlags, handlerVars, settings, registerVars, taskVars>>

(* ---------------------------- specifications ---------------------------- *)

\* registrations through router.post
RouteNext ==
    \/ \E r \in Requests :
        \/ Begin(r)
        \/ EmailLookup(r)
        \/ FingerprintLookup(r)
        \/ Allocate(r)
        \/ SaveOk(r)
        \/ SaveFails(r)
    \/ \E id \in AccountIds : SoftDelete(id)

\* calls of User.register and their auto-join tasks
RegisterNext ==
    \/ \E r \in Requests :
        \/ Register(r)
        \/ UserSaveOk(r)
        \/ UserSaveFails(r)
        \/ SettingsSaveOk(r)
        \/ SettingsSaveFails(r)
        \/ RegisterReturns(r)
        \/ RegisterThrows(r)
        \/ AutoJoinStarts(r)
        \/ AutoJoinJoins(r)
        \/ AutoJoinLogs(r)
    \/ \E id \in AccountIds : SoftDelete(id)

Init == InitWith(RouteConfigs \cup RegisterConfigs, {{}, {SeedUser}})

Next == RouteNext \/ RegisterNext

Spec == Init /\ [][Next]_vars

InitRoute == InitWith(RouteConfigs, {{SeedUser}})

SpecRoute == InitRoute /\ [][RouteNext]_vars

InitRegister == InitWith(RegisterConfigs, {{}})

SpecRegister == InitRegister /\ [][RegisterNext]_vars

(* ------------------------- adjustEmail on its own ----------------------- *)

LocalTokens == {"a", ".", "+"}

\* the sequences over S of length at most n
SeqsUpTo(S, n) == UNION {[1..k -> S] : k \in 0..n}

\* the strings tried as emails: any local part, valid or not, "@", a domain
EmailStrings ==
    {l \o <<"@", d>> : l \in SeqsUpTo(LocalTokens, MaxLocal), d \in Domains}

InitEmail ==
    /\ cfg = PermissiveConfig
    /\ pc = [r \in Requests |-> "idle"]
    /\ body \in [Requests -> {[NoBody EXCEPT !.email = e] : e \in EmailStrings}]
    /\ local = [r \in Requests |-> NoLocals]
    /\ res = [r \in Requests |-> NoResponse]
    /\ checks = [r \in Requests |-> <<>>]
    /\ prior = [r \in Requests |-> {}]
    /\ users = {}
    /\ settings = {}
    /\ userSave = [r \in Requests |-> "none"]
    /\ settingsSave = [r \in Requests |-> "none"]
    /\ task = [r \in Requests |-> NoTask]
    /\ members = {}
    /\ errors = {}
    /\ userFlags = NoFlags

\* register.ts 58: let adjusted_email = adjustEmail(email)
Canonicalize(r) ==
    /\ pc[r] = "idle"
    /\ pc' = [pc EXCEPT ![r] = "adjusted"]
    /\ local' = [local EXCEPT ![r].adjusted_email = adjustEmail(body[r].email)]
    /\ UNCHANGED <<cfg, userFlags, body, res, checks, prior, dbVars, registerVars, taskVars>>

\* the canonical form comes back as the email of a request and is adjusted
\* again
Recanonicalize(r) ==
    /\ pc[r] = "adjusted"
    /\ local[r].adjusted_email # Absent
    /\ pc' = [pc EXCEPT ![r] = "readjusted"]
    /\ body' = [body EXCEPT ![r].email = local[r].adjusted_email]
    /\ local' = [local EXCEPT ![r].adjusted_email = adjustEmail(local[r].adjusted_email)]
    /\ UNCHANGED <<cfg, userFlags, res, checks, prior, dbVars, registerVars, taskVars>>

EmailNext == \E r \in Requests : Canonicalize(r) \/ Recanonicalize(r)

SpecEmail == InitEmail /\ [][EmailNext]_vars

(* ------------------------------ UserFlags ------------------------------- *)

\* static FLAGS: the named bit positions
NamedBits == 0..MaxNamedBit

\* the positions tried: named ones, unnamed ones below the custom offset,
\* custom ones
SampleBits ==
    {0, 1, MaxNamedBit, MaxNamedBit + 1, CustomOffsetBit - 1}
        \cup (CustomOffsetBit..(CustomOffsetBit + MaxCustom))

RECURSIVE Reverse(_)
Reverse(s) == IF s = <<>> THEN <<>> ELSE Reverse(Tail(s)) \o <<Head(s)>>

RECURSIVE DoubleRev(_, _)
\* twice a number plus a carry, digits least significant first
DoubleRev(a, carry) ==
    IF a = <<>> THEN (IF carry = 0 THEN <<>> ELSE <<carry>>)
    ELSE <<(2 * Head(a) + carry) % 10>> \o DoubleRev(Tail(a), (2 * Head(a) + carry) \div 10)

RECURSIVE AddRev(_, _, _)
\* the sum of two numbers and a carry, digits least significant first
AddRev(a, b, carry) ==
    IF a = <<>> /\ b = <<>> THEN (IF carry = 0 THEN <<>> ELSE <<carry>>)
    ELSE LET x == IF a = <<>> THEN 0 ELSE Head(a)
             y == IF b = <<>> THEN 0 ELSE Head(b)
         IN  <<(x + y + carry) % 10>>
                \o AddRev(IF a = <<>> THEN a ELSE Tail(a),
                          IF b = <<>> THEN b ELSE Tail(b),
                          (x + y + carry) \div 10)

RECURSIVE Pow2Rev(_)
\* BigInt(1) << BigInt(p), digits least significant first
Pow2Rev(p) == IF p = 0 THEN <<1>> ELSE DoubleRev(Pow2Rev(p - 1), 0)

RECURSIVE SumRev(_)
\* the bitfield with the bits B set, digits least significant first
SumRev(B) ==
    IF B = {} THEN <<>>
    ELSE LET p == CHOOSE q \in B : TRUE
         IN  AddRev(Pow2Rev(p), SumRev(B \ {p}), 0)

\* the bitfield with the bits B set, as a base-10 string
toString(B) == IF B = {} THEN <<0>> ELSE Reverse(SumRev(B))

RECURSIVE HalveFrom(_, _)
\* long division by two, most significant digit first
HalveFrom(s, rem) ==
    IF s = <<>> THEN <<>>
    ELSE <<(10 * rem + Head(s)) \div 2>> \o HalveFrom(Tail(s), (10 * rem + Head(s)) % 2)

IsZero(s) == \A i \in 1..Len(s) : s[i] = 0

RECURSIVE BitsFrom(_, _)
\* the bits set in the number s, counted from position p
BitsFrom(s, p) ==
    IF IsZero(s) THEN {}
    ELSE (IF s[Len(s)] % 2 = 1 THEN {p} ELSE {}) \cup BitsFrom(HalveFrom(s, 0), p + 1)

\* a decoding that keeps the named bits only
fromStringNamedOnly(s) == BitsFrom(s, 0) \cap NamedBits

\* the bitfield a base-10 string stands for
fromString(s) == BitsFrom(s, 0)

InitFlags ==
    /\ cfg = PermissiveConfig
    /\ pc = [r \in Requests |-> "idle"]
    /\ body = [r \in Requests |-> NoBody]
    /\ local = [r \in Requests |-> NoLocals]
    /\ res = [r \in Requests |-> NoResponse]
    /\ checks = [r \in Requests |-> <<>>]
    /\ prior = [r \in Requests |-> {}]
    /\ users = {}
    /\ settings = {}
    /\ userSave = [r \in Requests |-> "none"]
    /\ settingsSave = [r \in Requests |-> "none"]
    /\ task = [r \in Requests |-> NoTask]
    /\ members = {}
    /\ errors = {}
    /\ userFlags \in {[NoFlags EXCEPT !.bitfield = B] : B \in SUBSET SampleBits}

\* the bitfield is written as the flags string of the user
Serialize ==
    /\ userFlags.step = "new"
    /\ userFlags' = [userFlags EXCEPT !.flags = toString(userFlags.bitfield),
                                      !.step = "stored"]
    /\ UNCHANGED <<cfg, handlerVars, dbVars, registerVars, taskVars>>

\* the flags string is read back as a bitfield
Deserialize ==
    /\ userFlags.step = "stored"
    /\ userFlags' = [userFlags EXCEPT !.resolved = fromString(userFlags.flags),
                                      !.step = "loaded"]
    /\ UNCHANGED <<cfg, handlerVars, dbVars, registerVars, taskVars>>

FlagsNext == Serialize \/ Deserialize

SpecFlags == InitFlags /\ [][FlagsNext]_vars

(* ------------------------------ properties ------------------------------ *)

Row(id) == {u \in users : u.id = id}

Stepped(r) == <<pc[r], local[r]>>' # <<pc[r], local[r]>>

IsPrefix(s, t) ==
    /\ Len(s) <= Len(t)
    /\ \A i \in 1..Len(s) : s[i] = t[i]

\* C1: under any interleaving of registrations, no two accounts with
\* deleted = false share the pair (username, discriminator)
C1_UniqueIdentity ==
    \A u, v \in users :
        (u.id # v.id /\ ~u.deleted /\ ~v.deleted)
            => ~(u.username = v.username /\ u.discriminator = v.discriminator)

\* C2: an account's row is visible exactly when its settings row is, and
\* once either write of a registration has failed neither row is visible
C2_AllOrNothing ==
    /\ \A id \in AccountIds : (Row(id) # {}) <=> (id \in settings)
    /\ \A r \in Requests :
        (userSave[r] = "failed" \/ settingsSave[r] = "failed")
            => (Row(r) = {} /\ r \notin settings)

\* every discriminator of the range is taken for the username
AllTaken(username) ==
    \A n \in 1..MaxDiscriminator : IdentityExists(username, FormatDiscriminator(n))

\* C3: the loop draws at most MaxTries times and never stalls: a handler in
\* the loop has drawn fewer than MaxTries times and can draw again, every
\* draw either leaves the loop or counts one more try; when every
\* discriminator is taken for the username the loop never reaches the save,
\* and it ends, at the last try, with USERNAME_TOO_MANY_USERS on username
\* and the tables untouched
C3_BoundedAllocation ==
    /\ [](\A r \in Requests :
            pc[r] = "allocate" => (local[r].tries < MaxTries /\ ENABLED Allocate(r)))
    /\ [][\A r \in Requests :
            (pc[r] = "allocate" /\ Stepped(r)) =>
                /\ pc'[r] \in {"allocate", "save", "done"}
                /\ pc'[r] = "allocate" => local'[r].tries = local[r].tries + 1
                /\ AllTaken(local[r].adjusted_username) => pc'[r] # "save"
                /\ pc'[r] = "done" =>
                    /\ local[r].tries = MaxTries - 1
                    /\ res'[r] = FieldErrors("username", "USERNAME_TOO_MANY_USERS")
                    /\ UNCHANGED dbVars]_vars

\* C3: a registration has ended with the exhaustion error, every
\* discriminator of its username being taken, and has left no row
C3_Exhausted ==
    \E r \in Requests :
        /\ res[r] = FieldErrors("username", "USERNAME_TOO_MANY_USERS")
        /\ AllTaken(trimSpecial(body[r].username))
        /\ Row(r) = {} /\ r \notin settings

\* C4: a save that meets its (username, discriminator) already taken writes
\* nothing and sends the handler back to the allocation or ends it with
\* USERNAME_TOO_MANY_USERS (a save the database fails for another reason is
\* left aside)
C4_ConflictRetried ==
    [][\A r \in Requests :
        (/\ pc[r] = "save"
         /\ IdentityExists(local[r].adjusted_username, local[r].discriminator)
         /\ Stepped(r)
         /\ res'[r] # Unhandled("save"))
            => /\ UNCHANGED dbVars
               /\ \/ pc'[r] = "allocate"
                  \/ res'[r] = FieldErrors("username", "USERNAME_TOO_MANY_USERS")]_vars

\* the order the checks are claimed to run in, among those the
\* configuration makes the handler evaluate
ClaimedOrder ==
    SelectSeq(<<"enabled", "consent", "invite", "proxy", "email", "age",
                "fingerprint", "captcha">>,
              LAMBDA c : /\ c = "proxy" => cfg.blockProxies
                         /\ c = "fingerprint" => ~cfg.allowMultipleAccounts)

\* the outcome the claimed order gives a body that fails one of its first
\* four checks; NoResponse when it passes the four
ClaimedOutcome(b) ==
    IF ~cfg.allowNewRegistration THEN FieldErrors("email", "REGISTRATION_DISABLED")
    ELSE IF ~b.consent THEN FieldErrors("consent", "CONSENT_REQUIRED")
    ELSE IF cfg.requireInvite /\ b.invite = Absent THEN FieldErrors("email", "INVITE_ONLY")
    ELSE IF cfg.blockProxies /\ b.proxy THEN ProxyBlocked
    ELSE NoResponse

\* C5: the checks run in the order registration-enabled, consent, invite,
\* proxy, email, age, fingerprint, captcha, and the outcome of a request the
\* checks answer is that of the first failing one
C5_CheckOrder ==
    \A r \in Requests :
        /\ IsPrefix(checks[r], ClaimedOrder)
        /\ (pc[r] = "done" /\ res[r].kind # "Unhandled"
                /\ ClaimedOutcome(body[r]) # NoResponse)
                => res[r] = ClaimedOutcome(body[r])

\* C6: the email lookup rejects with EMAIL_ALREADY_REGISTERED on email
\* exactly when an account with deleted = false holds the canonical email
C6_ActiveEmailOnly ==
    [][\A r \in Requests :
        (pc[r] = "emailLookup" /\ Stepped(r)) =>
            ((res'[r] = FieldErrors("email", "EMAIL_ALREADY_REGISTERED"))
                <=> \E u \in users : ~u.deleted /\ u.email = local[r].adjusted_email)]_vars

\* C7: no two accounts with deleted = false hold the same email
C7_UniqueEmail ==
    \A u, v \in users :
        (u.id # v.id /\ ~u.deleted /\ ~v.deleted /\ u.email # Absent)
            => u.email # v.email

\* the registrations answered with a token before r arrived, and their bodies
EarlierBodies(r) ==
    {SeedBody} \cup {body[q] : q \in {p \in prior[r] : res[p].kind = "Token"}}

\* C8: with multiple accounts disallowed, the account a registration with
\* fingerprint f creates carries f, and a registration that supplies the
\* fingerprint of an earlier successful one does not pass the fingerprint
\* check
C8_FingerprintReuse ==
    ~cfg.allowMultipleAccounts =>
        \A r \in Requests :
            /\ (res[r].kind = "Token" /\ body[r].fingerprint # Absent)
                    => \A u \in Row(r) : InSeq(body[r].fingerprint[1], u.fingerprints)
            /\ (body[r].fingerprint # Absent
                    /\ \E b \in EarlierBodies(r) : b.fingerprint = body[r].fingerprint)
                    => ~InSeq("captcha", checks[r])

\* C9: the auto-join task exists only once User.register has returned the
\* user with both rows written; its steps change neither a result nor the
\* tables, and a join that fails is logged and nothing else
C9_DetachedAutoJoin ==
    /\ [](\A r \in Requests :
            task[r].state # "none"
                => (res[r] = UserReturned /\ Row(r) # {} /\ r \in settings))
    /\ [][\A r \in Requests :
            (task[r].state # "none" /\ task'[r] # task[r]) =>
                /\ UNCHANGED <<pc, res, dbVars>>
                /\ task[r].state = "running" =>
                    LET attempt == {<<r, GuildsToJoin[task[r].next + 1]>>}
                    IN  \/ members' = members \cup attempt /\ errors' = errors
                        \/ errors' = errors \cup attempt /\ members' = members]_vars

\* C9: a join of the task has failed and was logged, the caller holds the
\* user and the task went on to its end
C9_LoggedFailure ==
    \E r \in Requests :
        /\ task[r].state = "done"
        /\ \E e \in errors : e[1] = r
        /\ res[r] = UserReturned
        /\ Row(r) # {} /\ r \in settings

\* C10: a request without captcha_key that comes to the captcha check while
\* captcha is required gets the challenge, neither field errors nor a
\* token, and no row
C10_CaptchaChallenge ==
    \A r \in Requests :
        (/\ InSeq("captcha", checks[r])
         /\ cfg.requireCaptcha /\ cfg.captchaEnabled
         /\ body[r].captcha_key = Absent)
            => /\ pc[r] = "done"
               /\ res[r] = CaptchaChallenge
               /\ Row(r) = {} /\ r \notin settings

\* C10: a request has passed every check before the captcha and got the
\* challenge
C10_Challenged ==
    \E r \in Requests :
        /\ res[r] = CaptchaChallenge
        /\ cfg.requireCaptcha /\ cfg.captchaEnabled
        /\ body[r].captcha_key = Absent
        /\ body[r].email # Absent /\ body[r].consent

\* C11: with a minimum age configured, a registration that comes to the age
\* check with a birth date is rejected with DATE_OF_BIRTH_UNDERAGE on
\* date_of_birth exactly when the date is later than now minus the minimum;
\* otherwise the age check lets it through
C11_AgeBoundary ==
    [][\A r \in Requests :
        (/\ Stepped(r)
         /\ ~InSeq("age", checks[r]) /\ InSeq("age", checks'[r])
         /\ cfg.dateOfBirthMinimum # 0
         /\ body[r].date_of_birth # Absent)
            => LET later == body[r].date_of_birth[1] > Now - cfg.dateOfBirthMinimum
                   last == checks'[r][Len(checks'[r])]
               IN  /\ later <=> res'[r] = FieldErrors("date_of_birth", "DATE_OF_BIRTH_UNDERAGE")
                   /\ later => (pc'[r] = "done" /\ last = "age")
                   /\ ~later => (res'[r].field # "date_of_birth"
                                    /\ (pc'[r] = "done" => last # "age"))]_vars

\* C11: a birth date one step later than the minimum has been rejected as
\* underage
C11_Underage ==
    \E r \in Requests :
        /\ cfg.dateOfBirthMinimum # 0
        /\ res[r] = FieldErrors("date_of_birth", "DATE_OF_BIRTH_UNDERAGE")
        /\ body[r].date_of_birth = <<Now - cfg.dateOfBirthMinimum + 1>>

\* C12: the discriminator of every account a registration has created is a
\* string of four decimal digits other than 0000
C12_DiscriminatorFormat ==
    \A u \in users :
        u.id \in Requests =>
            /\ Len(u.discriminator) = DiscriminatorLength
            /\ \A i \in 1..Len(u.discriminator) : u.discriminator[i] \in 0..9
            /\ u.discriminator # <<0, 0, 0, 0>>

\* C14: the email of every account a registration has created is the
\* canonical form of the email its request supplied, and absent when the
\* request supplied none
C14_StoredEmail ==
    \A u \in users :
        u.id \in Requests =>
            u.email = IF body[u.id].email = Absent THEN Absent
                      ELSE adjustEmail(body[u.id].email)

\* the input field the claimed taxonomy names for a rejection by check c
ClaimedField(c) ==
    [enabled |-> "email", consent |-> "consent", invite |-> "email", proxy |-> "ip",
     email |-> "email", age |-> "date_of_birth", fingerprint |-> "fingerprint",
     captcha |-> "captcha_key"][c]

\* C13: a request a check has rejected got field errors, on the input field
\* of that check: consent for the consent check, email for a duplicate
\* email, date_of_birth for the age check, the fingerprint for a reused one,
\* and field errors too for a proxy origin
C13_FieldScoped ==
    \A r \in Requests :
        (pc[r] = "done" /\ res[r].kind \in {"FieldErrors", "HTTPError"} /\ checks[r] # <<>>
            /\ res[r].code # "USERNAME_TOO_MANY_USERS")
            => /\ res[r].kind = "FieldErrors"
               /\ res[r].field # ""
               /\ checks[r][Len(checks[r])] \in {"consent", "email", "age", "fingerprint"}
                    => res[r].field = ClaimedField(checks[r][Len(checks[r])])

\* C15: adjustEmail is idempotent: the canonical form of a valid email,
\* adjusted again, is itself
C15_Idempotent ==
    \A r \in Requests :
        pc[r] = "readjusted" => local[r].adjusted_email = body[r].email

LocalPart(email) == SubSeq(email, 1, Len(email) - 2)

DomainOf(email) == email[Len(email)]

RECURSIVE Plain(_)
\* a local part read up to its first "+", dots skipped
Plain(s) ==
    IF s = <<>> \/ Head(s) = "+" THEN <<>>
    ELSE IF Head(s) = "." THEN Plain(Tail(s))
    ELSE <<Head(s)>> \o Plain(Tail(s))

\* two valid emails on one domain that differ only by dots and a "+" suffix
\* of the local part
AliasPair(r, q) ==
    /\ pc[r] = "adjusted" /\ pc[q] = "adjusted"
    /\ local[r].adjusted_email # Absent /\ local[q].adjusted_email # Absent
    /\ body[r].email # body[q].email
    /\ DomainOf(body[r].email) = DomainOf(body[q].email)
    /\ Plain(LocalPart(body[r].email)) = Plain(LocalPart(body[q].email))

\* C16: two valid emails that differ only by dots and a "+" suffix of the
\* local part get the same canonical form on gmail.com and googlemail.com;
\* on another domain each is returned unchanged and the two stay distinct
C16_AliasesCollapse ==
    \A r, q \in Requests :
        AliasPair(r, q) =>
            IF DomainOf(body[r].email) \in {"gmail.com", "googlemail.com"}
            THEN local[r].adjusted_email = local[q].adjusted_email
            ELSE /\ local[r].adjusted_email = body[r].email
                 /\ local[q].adjusted_email = body[q].email
                 /\ local[r].adjusted_email # local[q].adjusted_email

\* C16: a dotted spelling and a "+" spelling of one googlemail mailbox have
\* been adjusted to one canonical form
C16_Collapsed ==
    \E r, q \in Requests :
        /\ AliasPair(r, q)
        /\ DomainOf(body[r].email) = "googlemail.com"
        /\ InSeq(".", body[r].email) /\ InSeq("+", body[q].email)
        /\ local[r].adjusted_email = local[q].adjusted_email

\* C17: a bitfield written as its base-10 string and read back is the same
\* bitfield, whichever named, unnamed or custom bits it holds
C17_RoundTrip ==
    userFlags.step = "loaded" => userFlags.resolved = userFlags.bitfield

\* C17: a bitfield with a named bit, an unnamed bit and a custom bit at or
\* above position 32 has gone through the string and come back whole
C17_MixedBits ==
    /\ userFlags.step = "loaded"
    /\ \E b \in userFlags.bitfield : b \in NamedBits
    /\ \E b \in userFlags.bitfield : b \notin NamedBits /\ b < CustomOffsetBit
    /\ \E b \in userFlags.bitfield : b > CustomOffsetBit
    /\ userFlags.resolved = userFlags.bitfield
    /\ Len(userFlags.flags) >= 10

Rejections == {"FieldErrors", "HTTPError", "Challenge"}

\* C18: a registration that ends in a rejection or in the captcha challenge
\* has written nothing: none of its steps up to and including the answer
\* changes the users or the settings table, it leaves no row of its own and
\* no auto-join task
C18_RejectionWritesNothing ==
    /\ [](\A r \in Requests :
            res[r].kind \in Rejections
                => /\ Row(r) = {} /\ r \notin settings
                   /\ task[r] = NoTask
                   /\ \A e \in members \cup errors : e[1] # r)
    /\ [][\A r \in Requests :
            (Stepped(r) /\ (res'[r].kind \in Rejections \/ pc'[r] # "done"))
                => UNCHANGED <<dbVars, taskVars>>]_vars

\* C18: one request was rejected with field errors and another got the
\* captcha challenge, and the tables hold the earlier account alone
C18_Rejected ==
    \E r, q \in Requests :
        /\ res[r].kind = "FieldErrors"
        /\ res[q] = CaptchaChallenge
        /\ users = {SeedUser} /\ settings = {SeedUser.id}
        /\ task[r] = NoTask /\ task[q] = NoTask

\* the guilds the task of r has attempted to join
Attempted(r) == {e[2] : e \in {x \in members \cup errors : x[1] = r}}

\* C19: the task of an account exists only when both its writes have
\* succeeded, and no guild is ever attempted for an account one of whose
\* writes failed; a running task has attempted the first guilds of the
\* configured list, attempts the next one at each step, whether or not the
\* one before failed, and ends only when all were attempted
C19_AutoJoinOrder ==
    /\ [](\A r \in Requests :
            /\ task[r].state # "none" => (userSave[r] = "ok" /\ settingsSave[r] = "ok")
            /\ (userSave[r] = "failed" \/ settingsSave[r] = "failed")
                    => (task[r] = NoTask /\ Attempted(r) = {})
            /\ Attempted(r) = {GuildsToJoin[i] : i \in 1..task[r].next}
            /\ task[r].state = "done" => task[r].next = Len(GuildsToJoin)
            /\ task[r].state = "running" => task[r].next < Len(GuildsToJoin))
    /\ [][\A r \in Requests :
            Attempted(r)' # Attempted(r)
                => Attempted(r)' = Attempted(r) \cup {GuildsToJoin[task[r].next + 1]}]_vars

\* C19: with auto-join enabled a task has ended after a failed join of the
\* first guild and a successful join of the last
C19_JoinedAfterFailure ==
    \E r \in Requests :
        /\ cfg.autoJoinEnabled
        /\ task[r].state = "done"
        /\ <<r, AutoJoinGuilds[1]>> \in errors
        /\ <<r, AutoJoinGuilds[Len(AutoJoinGuilds)]>> \in members

\* an account holds the pair (username, d)
Taken(username, d) == \E u \in users : u.username = username /\ u.discriminator = d

\* C20: a turn of the loop leaves it for the save exactly with a candidate
\* its lookup found free, and the save creates the account with that
\* candidate; a turn whose candidate is taken counts a try, and
\* USERNAME_TOO_MANY_USERS is the answer of the fifth such turn in a row
\* only
C20_FirstFreeCandidate ==
    [][\A r \in Requests :
        /\ (pc[r] = "allocate" /\ Stepped(r)) =>
            /\ pc'[r] = "save" =>
                /\ ~Taken(local[r].adjusted_username, local'[r].discriminator)
                /\ local'[r].discriminator \in {FormatDiscriminator(n) : n \in 1..MaxDiscriminator}
            /\ pc'[r] = "allocate" =>
                /\ Taken(local[r].adjusted_username, local'[r].discriminator)
                /\ local'[r].tries = local[r].tries + 1
            /\ res'[r] = FieldErrors("username", "USERNAME_TOO_MANY_USERS") =>
                /\ local[r].tries = MaxTries - 1
                /\ \E n \in 1..MaxDiscriminator :
                    Taken(local[r].adjusted_username, FormatDiscriminator(n))
        /\ (pc[r] = "save" /\ Row(r)' # Row(r)) =>
            /\ Row(r) = {}
            /\ \A u \in Row(r)' :
                /\ u.discriminator = local[r].discriminator
                /\ u.username = local[r].adjusted_username]_vars

\* C20: a registration has ended with USERNAME_TOO_MANY_USERS although a
\* discriminator is free for its username, while another has been created
C20_ExhaustedWithFree ==
    \E r \in Requests :
        /\ res[r] = FieldErrors("username", "USERNAME_TOO_MANY_USERS")
        /\ ~AllTaken(trimSpecial(body[r].username))
        /\ \E q \in Requests : res[q].kind = "Token" /\ Row(q) # {}

====
